---- MODULE Spec2Model ----
(***************************************************************************)
(* Model of the circuit-graph site: the graph reduction of site/app.js     *)
(* (toCytoscapeElements), the sequence annotator of                        *)
(* site/sequence_viewer.js (clampSegs, segmentsToMask, topPositionsToMap,  *)
(* renderExampleHTML) and the asynchronous render() of app.js.             *)
(*                                                                         *)
(* JavaScript objects are records; an absent property is a field that is   *)
(* not in the record's DOMAIN.  Numbers are integers (weights are scaled). *)
(***************************************************************************)
EXTENDS Integers, Sequences, FiniteSets, TLC

VARIABLES
  \* toCytoscapeElements: its arguments and what it returns
  graph, minEdgeWeight, maxEdgesPerNode, elems,
  \* renderExampleHTML: its arguments, its locals and where it stands
  example, opts, apc, L, behSegs, featSegs, behMask, featMask, topMap, start, lines,
  \* the page: the graphSelect control, the render() invocations in flight,
  \* the graph shown in #cy, the feature cache and the #details message
  graphSelect, rpc, rGraph, rFeatures, rOk, cyGraph, FEATURES, details

reduceVars == <<graph, minEdgeWeight, maxEdgesPerNode, elems>>
annotInputs == <<example, opts>>
annotLocals == <<L, behSegs, featSegs, behMask, featMask, topMap>>
annotVars == <<annotInputs, annotLocals, apc, start, lines>>
renderVars == <<graphSelect, rpc, rGraph, rFeatures, rOk, cyGraph, FEATURES, details>>
vars == <<reduceVars, annotVars, renderVars>>

\* ------------------------------------------------------------------
\* Bounds of the model
\* ------------------------------------------------------------------
MaxEdges == 3
MaxWeight == 2
MaxDegree == 2
MaxLen == 3
MaxSegs == 2
MaxWrapLen == 7
MaxLineLen == 3
MaxRenders == 3

\* ------------------------------------------------------------------
\* JavaScript values
\* ------------------------------------------------------------------
Undefined == "undefined"

Has(r, f) == f \in DOMAIN r

\* r.f, undefined when the property is absent
Get(r, f) == IF Has(r, f) THEN r[f] ELSE Undefined

\* { ...base, ...e }: the properties of e override those of base
Spread(base, e) ==
  [f \in (DOMAIN base) \cup (DOMAIN e) |-> IF f \in DOMAIN e THEN e[f] ELSE base[f]]

\* values of a weight property: a number, null, or a non-numeric string
WNum(n) == [t |-> "number", v |-> n]
WNull == [t |-> "null", v |-> 0]
WStr == [t |-> "string", v |-> 0]
NaN == [t |-> "NaN", v |-> 0]
WUndefined == [t |-> "undefined", v |-> 0]

\* r.f for a property that holds such a value
GetValue(r, f) == IF Has(r, f) THEN r[f] ELSE WUndefined

\* a null entry of an array of objects
Null == [jsnull |-> TRUE]
IsNull(e) == Has(e, "jsnull")

\* ToNumber of a weight value: a non-numeric string is NaN
ToNumber(w) == IF w.t = "number" THEN w ELSE IF w.t = "null" THEN WNum(0) ELSE NaN

\* x >= y on JavaScript values: false as soon as one side is NaN
JsGE(x, y) ==
  LET a == ToNumber(x)
      b == ToNumber(y)
  IN  a.t = "number" /\ b.t = "number" /\ a.v >= b.v

\* (r.weight ?? 0): 0 when the property is absent (undefined) or null
WeightOrZero(r) ==
  IF ~Has(r, "weight") \/ r.weight.t = "null" THEN WNum(0) ELSE r.weight

Min(a, b) == IF a <= b THEN a ELSE b
Max(a, b) == IF a >= b THEN a ELSE b

\* ------------------------------------------------------------------
\* toCytoscapeElements (app.js)
\* ------------------------------------------------------------------
NodeElemIdOnly(n) == [data |-> [id |-> Get(n, "id")]]

\* n => ({ data: { id: n.id, ...n } })
NodeElem(n) == [data |-> Spread([id |-> Get(n, "id")], n)]

NodeElems(nodes) == [i \in 1..Len(nodes) |-> NodeElem(nodes[i])]

KeepEdgeLoose(e, minW) == JsGE(WeightOrZero(e), WNum(minW - 1))

\* e => (e.weight ?? 0) >= minEdgeWeight
KeepEdge(e, minW) == JsGE(WeightOrZero(e), WNum(minW))

\* `e${idx}`
EdgeId(idx) == <<"e", idx>>

\* (e, idx) => ({ data: { id: `e${idx}`, source: e.src, target: e.dst, ...e } })
EdgeElem(e, idx) ==
  [data |-> Spread([id |-> EdgeId(idx), source |-> Get(e, "src"),
                    target |-> Get(e, "dst")], e)]

\* graph.edges.filter(...).map(...); idx is 0-based in the filtered array
FilterMapEdges(edges, minW) ==
  LET kept == SelectSeq(edges, LAMBDA e : KeepEdge(e, minW))
  IN  [i \in 1..Len(kept) |-> EdgeElem(kept[i], i - 1)]

\* keys of bySrc in insertion order: the sources in order of first occurrence
RECURSIVE SrcOrder(_)
SrcOrder(es) ==
  IF es = <<>> THEN <<>>
  ELSE LET front == SrcOrder(SubSeq(es, 1, Len(es) - 1))
           s == es[Len(es)].data.source
       IN  IF \E i \in 1..Len(front) : front[i] = s THEN front
           ELSE Append(front, s)

\* bySrc.get(src): the edges of one source, in the order they were pushed
Group(es, src) == SelectSeq(es, LAMBDA x : x.data.source = src)

CmpAscending(a, b) ==
  LET x == ToNumber(WeightOrZero(a.data))
      y == ToNumber(WeightOrZero(b.data))
  IN  IF x.t = "NaN" \/ y.t = "NaN" THEN 0 ELSE x.v - y.v

\* (a, b) => (b.data.weight ?? 0) - (a.data.weight ?? 0); sort reads NaN as +0
Cmp(a, b) ==
  LET x == ToNumber(WeightOrZero(a.data))
      y == ToNumber(WeightOrZero(b.data))
  IN  IF x.t = "NaN" \/ y.t = "NaN" THEN 0 ELSE y.v - x.v

\* Array.prototype.sort is stable: x goes before the first element that the
\* comparator puts strictly after it
InsertSorted(sorted, x) ==
  LET later == {i \in 1..Len(sorted) : Cmp(sorted[i], x) > 0}
      pos == IF later = {} THEN Len(sorted) + 1
             ELSE CHOOSE i \in later : \A j \in later : i <= j
  IN  SubSeq(sorted, 1, pos - 1) \o <<x>> \o SubSeq(sorted, pos, Len(sorted))

RECURSIVE Sort(_)
Sort(arr) ==
  IF arr = <<>> THEN <<>>
  ELSE InsertSorted(Sort(SubSeq(arr, 1, Len(arr) - 1)), arr[Len(arr)])

SliceOneMore(arr, k) == SubSeq(arr, 1, Min(k + 1, Len(arr)))

\* arr.slice(0, k)
Slice(arr, k) == SubSeq(arr, 1, Min(Max(k, 0), Len(arr)))

\* for (const [src, arr] of bySrc.entries()) { arr.sort(...); push(...slice) }
RECURSIVE PruneGroups(_, _, _)
PruneGroups(order, es, k) ==
  IF order = <<>> THEN <<>>
  ELSE Slice(Sort(Group(es, order[1])), k) \o PruneGroups(Tail(order), es, k)

\* Reading e.weight of a null entry throws a TypeError out of the function
toCytoscapeElements(g, minW, k) ==
  IF \E i \in 1..Len(g.edges) : IsNull(g.edges[i])
  THEN [status |-> "TypeError", nodes |-> <<>>, edges |-> <<>>]
  ELSE LET es == FilterMapEdges(g.edges, minW)
       IN  [status |-> "returned",
            nodes |-> NodeElems(g.nodes),
            edges |-> PruneGroups(SrcOrder(es), es, k)]

\* ------------------------------------------------------------------
\* Inputs of the reduction
\* ------------------------------------------------------------------
Node(id, kind) == [id |-> id, kind |-> kind]

NodeLists ==
  { << Node("A", "feature"), Node("B", "feature"), Node("T", "behavior") >>,
    << Node("Z", "feature"), Node("T", "behavior"), Node("B", "feature"),
       Node("A", "feature") >> }

WellFormedEdges ==
  { [src |-> "A", dst |-> "T", weight |-> WNum(w)] : w \in 0..MaxWeight }
    \cup { [src |-> "A", dst |-> "T"],
           [src |-> "A", dst |-> "T", weight |-> WNull],
           [src |-> "B", dst |-> "T", weight |-> WNum(1)],
           [src |-> "B", dst |-> "T", weight |-> WNum(MaxWeight)] }

\* edges that carry their own id or source attribute
AttributeEdges ==
  { [src |-> "A", dst |-> "T", weight |-> WNum(1), id |-> <<"e", 0>>],
    [src |-> "A", dst |-> "T", weight |-> WNum(1), source |-> "B"] }

MalformedEdges ==
  { [src |-> "A", dst |-> "T", weight |-> WStr],
    [dst |-> "T", weight |-> WNum(1)],
    Null }

EdgeChoices == WellFormedEdges \cup AttributeEdges \cup MalformedEdges

EdgeLists == UNION { [1..n -> EdgeChoices] : n \in 0..MaxEdges }

\* every edge object carries its input position in an extra attribute `tag`
Tagged(es) ==
  [i \in 1..Len(es) |-> IF IsNull(es[i]) THEN Null ELSE Spread(es[i], [tag |-> i])]


\* ------------------------------------------------------------------
\* sequence_viewer.js
\* ------------------------------------------------------------------
Infinity == [t |-> "Infinity", v |-> 0]

IsNum(x) == x.t = "number"

\* an array of values, and a value that is no array
Arr(elts) == [isArray |-> TRUE, elts |-> elts]
NotArray == [isArray |-> FALSE, elts |-> <<>>]

\* Number(x) of a segment endpoint or of a pos/act property
Number(x) ==
  IF x.t \in {"number", "Infinity"} THEN x ELSE IF x.t = "null" THEN WNum(0) ELSE NaN

\* Math.min(n, x) and Math.max(n, x) for a number n: NaN stays NaN
MathMin(n, x) ==
  IF x.t = "NaN" THEN NaN ELSE IF x.t = "Infinity" THEN WNum(n) ELSE WNum(Min(n, x.v))

MathMax(n, x) ==
  IF x.t = "NaN" THEN NaN ELSE IF x.t = "Infinity" THEN Infinity ELSE WNum(Max(n, x.v))

NumberIsFinite(x) == x.t = "number"

\* Math.max(0, Math.min(L - 1, Number(x)))
Clamp(x, len) == MathMax(0, MathMin(len - 1, Number(x)))

\* function clampSegs(segs, L)
RECURSIVE clampSegs(_, _)
clampSegs(segs, len) ==
  IF ~segs.isArray THEN <<>>
  ELSE IF segs.elts = <<>> THEN <<>>
  ELSE LET s == segs.elts[Len(segs.elts)]
           out == clampSegs(Arr(SubSeq(segs.elts, 1, Len(segs.elts) - 1)), len)
       IN  IF ~s.isArray \/ Len(s.elts) < 2 THEN out
           ELSE LET a == Clamp(s.elts[1], len)
                    b == Clamp(s.elts[2], len)
                IN  IF ~NumberIsFinite(a) \/ ~NumberIsFinite(b) THEN out
                    ELSE IF b.v < a.v THEN Append(out, Arr(<<b, a>>))
                    ELSE Append(out, Arr(<<a, b>>))

\* mask[i] = true on a JavaScript array: an index at or past the length
\* lengthens the array (the holes in between read as falsy)
MaskSet(mask, i) ==
  IF i < Len(mask) THEN [mask EXCEPT ![i + 1] = TRUE]
  ELSE mask \o [k \in 1..(i - Len(mask)) |-> FALSE] \o <<TRUE>>

\* for (let i = a; i <= b; i++) mask[i] = true
RECURSIVE MarkRange(_, _, _)
MarkRange(mask, a, b) ==
  IF a > b THEN mask ELSE MarkRange(MaskSet(mask, a), a + 1, b)

RECURSIVE MarkSegs(_, _)
MarkSegs(mask, segs) ==
  IF segs = <<>> THEN mask
  ELSE MarkSegs(MarkRange(mask, segs[1].elts[1].v, segs[1].elts[2].v), Tail(segs))

\* function segmentsToMask(segs, L); position p is element p + 1
segmentsToMask(segs, len) ==
  MarkSegs([i \in 1..len |-> FALSE], clampSegs(segs, len))

\* m.set(pos, act)
MapSet(m, k, val) == [x \in (DOMAIN m) \cup {k} |-> IF x = k THEN val ELSE m[x]]

EmptyMap == [x \in {} |-> 0]

\* function topPositionsToMap(topPositions)
RECURSIVE topPositionsToMap(_)
topPositionsToMap(tp) ==
  IF ~tp.isArray \/ tp.elts = <<>> THEN EmptyMap
  ELSE LET t == tp.elts[Len(tp.elts)]
           m == topPositionsToMap(Arr(SubSeq(tp.elts, 1, Len(tp.elts) - 1)))
       IN  IF IsNull(t) THEN m
           ELSE LET pos == Number(GetValue(t, "pos"))
                    act == Number(GetValue(t, "act"))
                IN  IF NumberIsFinite(pos) /\ NumberIsFinite(act)
                    THEN MapSet(m, pos.v, act.v) ELSE m

\* function segsToString(segs): the dash, or the 1-indexed ranges
segsToString(segs) ==
  IF segs = <<>> THEN [text |-> "dash", ranges |-> <<>>]
  ELSE [text |-> "ranges",
        ranges |-> [i \in 1..Len(segs) |-> <<segs[i].elts[1].v + 1, segs[i].elts[2].v + 1>>]]

\* mask[i] read as a condition: undefined past the end of the array
MaskAt(mask, i) == i + 1 \in DOMAIN mask /\ mask[i + 1]

DefaultLineLen == 60

\* opts.lineLen ?? 60
LineLen(o) == IF Has(o, "lineLen") THEN o.lineLen ELSE DefaultLineLen

\* example.sequence || ""
SequenceOf(ex) == IF Has(ex, "sequence") THEN ex.sequence ELSE <<>>

\* example.behavior_segments || []  (and likewise for the other lists)
ListOf(ex, f) == IF Has(ex, f) THEN ex[f] ELSE Arr(<<>>)

ClassesBehFirst(inBeh, inFeat, isTop) ==
  (IF inBeh THEN <<"aa", "beh">>
   ELSE IF inBeh /\ inFeat THEN <<"aa", "both">>
   ELSE IF inFeat THEN <<"aa", "feat">> ELSE <<"aa">>)
    \o (IF isTop THEN <<"top">> ELSE <<>>)

\* the class list of one residue: "aa", then both / beh / feat, then top
Classes(inBeh, inFeat, isTop) ==
  (IF inBeh /\ inFeat THEN <<"aa", "both">>
   ELSE IF inBeh THEN <<"aa", "beh">>
   ELSE IF inFeat THEN <<"aa", "feat">> ELSE <<"aa">>)
    \o (IF isTop THEN <<"top">> ELSE <<>>)

\* one <span>: its class list, its title fields and the residue
Span(i) ==
  LET inBeh == MaskAt(behMask, i)
      inFeat == MaskAt(featMask, i)
      isTop == i \in DOMAIN topMap
  IN  [cls |-> Classes(inBeh, inFeat, isTop),
       pos |-> i + 1,
       aa |-> SequenceOf(example)[i + 1],
       beh |-> IF inBeh THEN 1 ELSE 0,
       feat |-> IF inFeat THEN 1 ELSE 0,
       act |-> IF isTop THEN <<topMap[i]>> ELSE <<>>]

LeftIdxZeroBased(from) == from

\* String(start + 1): the 1-indexed label of the first residue of a line
LeftIdx(from) == from + 1

\* Math.min(L, start + lineLen)
LineEnd(from, len, lineLen) == Min(len, from + lineLen)

\* renderExampleHTML up to the loop over the lines
Prepare ==
  /\ apc = "called"
  /\ LET len == Len(SequenceOf(example))
         beh == clampSegs(ListOf(example, "behavior_segments"), len)
         feat == clampSegs(ListOf(example, "feature_segments"), len)
     IN  /\ L' = len
         /\ behSegs' = beh
         /\ featSegs' = feat
         /\ behMask' = segmentsToMask(Arr(beh), len)
         /\ featMask' = segmentsToMask(Arr(feat), len)
         /\ topMap' = topPositionsToMap(ListOf(example, "top_positions"))
  /\ start' = 0
  /\ lines' = <<>>
  /\ apc' = "lines"
  /\ UNCHANGED <<annotInputs, reduceVars, renderVars>>

\* one pass of for (let start = 0; start < L; start += lineLen)
Line ==
  /\ apc = "lines"
  /\ start < L
  /\ LET end == LineEnd(start, L, LineLen(opts))
     IN  lines' = Append(lines, [leftIdx |-> LeftIdx(start),
                                 rightIdx |-> end,
                                 spans |-> [k \in 1..(end - start) |-> Span(start + k - 1)]])
  /\ start' = start + LineLen(opts)
  /\ UNCHANGED <<annotInputs, annotLocals, apc, reduceVars, renderVars>>

\* the loop ends and the markup (legend, header, lines) is returned
Return ==
  /\ apc = "lines"
  /\ ~(start < L)
  /\ apc' = "returned"
  /\ UNCHANGED <<annotInputs, annotLocals, start, lines, reduceVars, renderVars>>

\* the two segment summaries of the header
BehSummary == segsToString(behSegs)
FeatSummary == segsToString(featSegs)

\* ------------------------------------------------------------------
\* Properties of the reduction
\* ------------------------------------------------------------------
Returned == elems.status = "returned"

OutEdges == elems.edges

\* the input edges that are objects
InputEdgeIdx == {j \in 1..Len(graph.edges) : ~IsNull(graph.edges[j])}

\* the source under which an input edge is shown: its own `source`
\* attribute when it carries one, else its src
ShownSource(e) == IF Has(e, "source") THEN e.source ELSE Get(e, "src")

HasNumericWeight(e) == ~Has(e, "weight") \/ e.weight.t \in {"number", "null"}

\* the weight of an edge, a missing (undefined or null) weight counting as 0
WeightValue(e) == IF Has(e, "weight") /\ e.weight.t = "number" THEN e.weight.v ELSE 0

AboveThreshold(e) == HasNumericWeight(e) /\ WeightValue(e) >= minEdgeWeight

InOutput(j) == \E i \in 1..Len(OutEdges) : OutEdges[i].data.tag = j

AboveOf(s) ==
  {j \in InputEdgeIdx : AboveThreshold(graph.edges[j]) /\ ShownSource(graph.edges[j]) = s}

KeptOf(s) == {i \in 1..Len(OutEdges) : OutEdges[i].data.source = s}

Sources == {ShownSource(graph.edges[j]) : j \in InputEdgeIdx}

\* every input edge has src, dst, a numeric or missing weight and no other
\* attribute than its tag
AllWellFormed ==
  \A j \in 1..Len(graph.edges) :
    /\ DOMAIN graph.edges[j] \subseteq {"src", "dst", "weight", "tag"}
    /\ Has(graph.edges[j], "src") /\ Has(graph.edges[j], "dst")
    /\ HasNumericWeight(graph.edges[j])

\* C1: every edge the reduction returns has weight >= minWeight (a missing
\* weight counting as 0), and no input edge whose weight is below minWeight
\* is in the output, however few edges its source has.
C1_KeptWeightAtLeastMin ==
  Returned =>
    /\ \A i \in 1..Len(OutEdges) :
         /\ HasNumericWeight(OutEdges[i].data)
         /\ WeightValue(OutEdges[i].data) >= minEdgeWeight
    /\ \A j \in InputEdgeIdx :
         (HasNumericWeight(graph.edges[j]) /\ WeightValue(graph.edges[j]) < minEdgeWeight)
           => ~InOutput(j)

\* a below-threshold edge is the only edge of its source and is dropped,
\* while another edge is kept
C1_Witness ==
  /\ Returned
  /\ AllWellFormed
  /\ Len(OutEdges) >= 1
  /\ \E j \in InputEdgeIdx :
       /\ HasNumericWeight(graph.edges[j])
       /\ WeightValue(graph.edges[j]) < minEdgeWeight
       /\ \A k \in InputEdgeIdx \ {j} :
            ShownSource(graph.edges[k]) # ShownSource(graph.edges[j])
       /\ ~InOutput(j)

\* C2: for each source id the output holds at most maxOutDegree edges of that
\* source; the cap is per source: a source with no more than maxOutDegree
\* above-threshold edges keeps all of them whatever the other sources have.
C2_PerSourceCap ==
  Returned =>
    \A s \in Sources :
      /\ Cardinality(KeptOf(s)) <= maxEdgesPerNode
      /\ Cardinality(AboveOf(s)) <= maxEdgesPerNode => \A j \in AboveOf(s) : InOutput(j)

\* one source is cut down to the cap while another keeps all its edges
C2_Witness ==
  /\ Returned
  /\ AllWellFormed
  /\ \E s, t \in Sources :
       /\ s # t
       /\ Cardinality(AboveOf(s)) > maxEdgesPerNode
       /\ Cardinality(KeptOf(s)) = maxEdgesPerNode
       /\ AboveOf(t) # {}
       /\ Cardinality(KeptOf(t)) = Cardinality(AboveOf(t))

\* edge a comes before edge b by weight descending, ties in input order
Before(a, b) ==
  \/ WeightValue(a) > WeightValue(b)
  \/ WeightValue(a) = WeightValue(b) /\ a.tag < b.tag

\* C3: for each source, the kept edges are the first maxOutDegree of its
\* above-threshold edges ordered by weight descending, ties in input order:
\* they are output in that order and every discarded above-threshold edge of
\* the source comes after every kept one in that order (so none is heavier).
C3_TopByWeightStable ==
  Returned =>
    \A s \in Sources :
      /\ Cardinality(KeptOf(s)) = Min(maxEdgesPerNode, Cardinality(AboveOf(s)))
      /\ \A i \in KeptOf(s) : OutEdges[i].data.tag \in AboveOf(s)
      /\ \A i, j \in KeptOf(s) :
           i < j => Before(OutEdges[i].data, OutEdges[j].data)
      /\ \A i \in KeptOf(s) : \A d \in AboveOf(s) :
           ~InOutput(d) => /\ Before(OutEdges[i].data, graph.edges[d])
                           /\ WeightValue(graph.edges[d]) <= WeightValue(OutEdges[i].data)

\* two equal weights kept in input order after a lighter edge that came first
\* in the input, which is discarded by the cap
C3_Witness ==
  /\ Returned
  /\ AllWellFormed
  /\ \E i, j \in 1..Len(OutEdges) : \E d \in InputEdgeIdx :
       /\ i < j
       /\ OutEdges[i].data.source = OutEdges[j].data.source
       /\ WeightValue(OutEdges[i].data) = WeightValue(OutEdges[j].data)
       /\ OutEdges[i].data.tag < OutEdges[j].data.tag
       /\ d < OutEdges[i].data.tag
       /\ AboveThreshold(graph.edges[d])
       /\ ShownSource(graph.edges[d]) = OutEdges[i].data.source
       /\ ~InOutput(d)

\* C4: the reduction returns exactly the input nodes: same count, same ids in
\* the same order, every attribute carried through; a node with no surviving
\* incident edge is still there.
C4_NodesUnchanged ==
  Returned =>
    /\ Len(elems.nodes) = Len(graph.nodes)
    /\ \A i \in 1..Len(graph.nodes) :
         /\ elems.nodes[i].data.id = graph.nodes[i].id
         /\ \A f \in DOMAIN graph.nodes[i] :
              Has(elems.nodes[i].data, f) /\ elems.nodes[i].data[f] = graph.nodes[i][f]

\* every input edge was pruned away and a node no edge touched is returned
C4_Witness ==
  /\ Returned
  /\ AllWellFormed
  /\ graph.edges # <<>>
  /\ OutEdges = <<>>
  /\ \E i \in 1..Len(elems.nodes) :
       /\ elems.nodes[i].data.id = "Z"
       /\ elems.nodes[i].data.kind = "feature"

\* C5: within one call the identifiers of the output edges are pairwise
\* distinct, also when edge records carry their own id attribute.
C5_EdgeIdsDistinct ==
  Returned =>
    \A i, j \in 1..Len(OutEdges) : i # j => OutEdges[i].data.id # OutEdges[j].data.id

IsMalformed(e) == IsNull(e) \/ ~Has(e, "src") \/ ~Has(e, "dst")

TagsOf(es) == [i \in 1..Len(es) |-> es[i].data.tag]

\* C6: the reduction never raises on a malformed edge entry; an edge whose
\* weight is not numeric is treated as weight 0 by the filter (it survives
\* exactly when 0 >= minWeight); an edge without source or target, or a null
\* entry, leaves the well-formed edges reduced as if it were absent.
C6_MalformedEdgesTolerated ==
  /\ elems.status # "TypeError"
  /\ Returned =>
       /\ \A j \in InputEdgeIdx :
            ~HasNumericWeight(graph.edges[j]) => (InOutput(j) <=> 0 >= minEdgeWeight)
       /\ LET good == SelectSeq(graph.edges, LAMBDA e : ~IsMalformed(e))
              alone == toCytoscapeElements([nodes |-> graph.nodes, edges |-> good],
                                           minEdgeWeight, maxEdgesPerNode)
          IN  TagsOf(SelectSeq(OutEdges, LAMBDA x : Has(x.data, "src")))
                = TagsOf(alone.edges)

\* ------------------------------------------------------------------
\* Properties of the annotator
\* ------------------------------------------------------------------
AnnotReturned == apc = "returned"

\* the spans of all lines, in order
RECURSIVE AllSpans(_)
AllSpans(ls) == IF ls = <<>> THEN <<>> ELSE ls[1].spans \o AllSpans(Tail(ls))

Category(span) ==
  IF span.cls[Len(span.cls)] = "top"
  THEN SubSeq(span.cls, 1, Len(span.cls) - 1) ELSE span.cls

Scored(span) == span.cls[Len(span.cls)] = "top"

\* an entry of an interval list that is an interval: an array of at least
\* two endpoints that are numbers (or infinite)
IsInterval(s) ==
  /\ s.isArray
  /\ Len(s.elts) >= 2
  /\ s.elts[1].t \in {"number", "Infinity"}
  /\ s.elts[2].t \in {"number", "Infinity"}

\* an endpoint brought into [0, len - 1]
Clamped(x, len) ==
  IF x.t = "Infinity" THEN len - 1
  ELSE IF x.v > len - 1 THEN len - 1 ELSE IF x.v < 0 THEN 0 ELSE x.v

\* position p lies in the normalized form of interval s
Inside(p, s, len) ==
  LET a == Clamped(s.elts[1], len)
      b == Clamped(s.elts[2], len)
  IN  (a <= p /\ p <= b) \/ (b <= p /\ p <= a)

Covered(p, segs, len) ==
  /\ segs.isArray
  /\ \E i \in 1..Len(segs.elts) : IsInterval(segs.elts[i]) /\ Inside(p, segs.elts[i], len)

\* p is a key of the score map: some entry has position p and a numeric score
HasScore(p, tp) ==
  /\ tp.isArray
  /\ \E i \in 1..Len(tp.elts) :
       /\ ~IsNull(tp.elts[i])
       /\ Has(tp.elts[i], "pos") /\ IsNum(tp.elts[i].pos) /\ tp.elts[i].pos.v = p
       /\ Has(tp.elts[i], "act") /\ IsNum(tp.elts[i].act)

\* C7: for every position p of the sequence the emitted category is one of
\* plain / primary / secondary / both: both iff p lies in a normalized primary
\* and a normalized secondary interval, primary iff only in a primary one,
\* secondary iff only in a secondary one, plain otherwise; scored is set iff
\* p is a key of the score map, whatever the category.
C7_Classification ==
  AnnotReturned =>
    LET spans == AllSpans(lines)
        len == Len(SequenceOf(example))
    IN  /\ Len(spans) = len
        /\ \A p \in 0..(len - 1) :
             LET inP == Covered(p, ListOf(example, "behavior_segments"), len)
                 inS == Covered(p, ListOf(example, "feature_segments"), len)
                 c == Category(spans[p + 1])
             IN  /\ spans[p + 1].pos = p + 1
                 /\ c \in {<<"aa">>, <<"aa", "beh">>, <<"aa", "feat">>, <<"aa", "both">>}
                 /\ c = <<"aa", "both">> <=> (inP /\ inS)
                 /\ c = <<"aa", "beh">> <=> (inP /\ ~inS)
                 /\ c = <<"aa", "feat">> <=> (~inP /\ inS)
                 /\ c = <<"aa">> <=> (~inP /\ ~inS)
                 /\ Scored(spans[p + 1]) <=> HasScore(p, ListOf(example, "top_positions"))
                 /\ Scored(spans[p + 1]) <=> p \in DOMAIN topMap

\* one rendering shows both (also scored), primary and secondary residues,
\* and a primary interval was clamped or swapped by the normalization
C7_Witness ==
  /\ AnnotReturned
  /\ LET spans == AllSpans(lines)
     IN  /\ \E i \in 1..Len(spans) : spans[i].cls = <<"aa", "both", "top">>
         /\ \E i \in 1..Len(spans) : spans[i].cls = <<"aa", "beh">>
         /\ \E i \in 1..Len(spans) : spans[i].cls = <<"aa", "feat">>
  /\ \E i \in 1..Len(behSegs) :
       behSegs[i] \notin {ListOf(example, "behavior_segments").elts[k] :
                            k \in 1..Len(ListOf(example, "behavior_segments").elts)}

CeilDiv(a, b) == (a + b - 1) \div b

\* C8: line wrapping ends with exactly ceil(L / lineLength) lines that cut
\* positions 0..L-1 into consecutive chunks in order; every line but the last
\* holds lineLength residues, the last is not empty; line k (0-based) is
\* labelled start = k*lineLength + 1 and end = min(L, (k+1)*lineLength).
\* While the loop runs, every pass adds one line and the number of lines stays
\* within ceil(L / lineLength), so the loop ends.
C8_LineWrapping ==
  LET len == Len(SequenceOf(example))
      ll == LineLen(opts)
  IN  /\ apc = "lines" =>
           /\ start = Len(lines) * ll
           /\ Len(lines) <= CeilDiv(len, ll)
      /\ AnnotReturned =>
           /\ Len(lines) = CeilDiv(len, ll)
           /\ \A k \in 0..(Len(lines) - 1) :
                LET line == lines[k + 1]
                IN  /\ line.leftIdx = k * ll + 1
                    /\ line.rightIdx = Min(len, (k + 1) * ll)
                    /\ Len(line.spans) = line.rightIdx - line.leftIdx + 1
                    /\ Len(line.spans) >= 1
                    /\ k < Len(lines) - 1 => Len(line.spans) = ll
                    /\ \A i \in 1..Len(line.spans) :
                         /\ line.spans[i].pos = line.leftIdx + i - 1
                         /\ line.spans[i].aa = SequenceOf(example)[line.leftIdx + i - 1]
           /\ Len(AllSpans(lines)) = len

\* three lines, the last one shorter than the others
C8_Witness ==
  /\ AnnotReturned
  /\ Len(lines) = 3
  /\ Len(lines[1].spans) = LineLen(opts)
  /\ Len(lines[2].spans) = LineLen(opts)
  /\ Len(lines[3].spans) < LineLen(opts)
  /\ Len(lines[3].spans) >= 1

\* C9: for an empty sequence the annotator returns zero lines, empty
\* normalized interval summaries for both categories and masks of length 0,
\* whatever interval lists and scores are supplied.
C9_EmptySequence ==
  (AnnotReturned /\ Len(SequenceOf(example)) = 0) =>
    /\ lines = <<>>
    /\ behSegs = <<>> /\ featSegs = <<>>
    /\ BehSummary.text = "dash" /\ FeatSummary.text = "dash"
    /\ Len(behMask) = 0 /\ Len(featMask) = 0

\* ------------------------------------------------------------------
\* boot / render / loadGraph / loadFeaturesForGraph (app.js)
\* ------------------------------------------------------------------
\* file names are sequences of characters
LowerOf(c) == IF c = "T" THEN "t" ELSE IF c = "M" THEN "m" ELSE IF c = "S" THEN "s"
              ELSE IF c = "P" THEN "p" ELSE c

toLowerCase(str) == [i \in 1..Len(str) |-> LowerOf(str[i])]

includes(str, sub) ==
  \E i \in 1..(Len(str) - Len(sub) + 1) : SubSeq(str, i, i + Len(sub) - 1) = sub

\* isTM ? "features_tm.json" : "features_sp.json"
FeaturesFile(graphFileName) ==
  IF includes(toLowerCase(graphFileName), <<"t", "m">>)
  THEN "features_tm.json" ELSE "features_sp.json"

\* the options of graphSelect
GraphFiles == { <<"g", "_", "t", "m">>, <<"g", "_", "s", "p">>, <<"T", "M", "2">> }

Renders == 1..MaxRenders

Started == {i \in Renders : rpc[i] # "idle"}

NoFile == <<>>
ErrorMessage == <<"E", "r", "r", "o", "r">>

\* render() up to its first await: loadGraph(graphSelect.value) issues the fetch
StartRender(i) ==
  /\ rpc' = [rpc EXCEPT ![i] = "fetchGraph"]
  /\ rGraph' = [rGraph EXCEPT ![i] = graphSelect']

\* graphSelect "change": the user picks another file and render() starts
ChangeGraph ==
  \E f \in GraphFiles \ {graphSelect} : \E i \in Renders :
    /\ rpc[i] = "idle"
    /\ \A j \in Renders : j < i => rpc[j] # "idle"
    /\ graphSelect' = f
    /\ StartRender(i)
    /\ UNCHANGED <<rFeatures, rOk, cyGraph, FEATURES, details, reduceVars, annotVars>>

\* minEdge "input" or maxEdges "change": render() starts on the same file
ChangeEdgeControl ==
  \E i \in Renders :
    /\ rpc[i] = "idle"
    /\ \A j \in Renders : j < i => rpc[j] # "idle"
    /\ graphSelect' = graphSelect
    /\ StartRender(i)
    /\ UNCHANGED <<rFeatures, rOk, cyGraph, FEATURES, details, reduceVars, annotVars>>

\* loadGraph: the fetch answers; !res.ok throws and render() rejects, which
\* only boot's own render() reports (boot().catch)
GraphResponse(i) ==
  /\ rpc[i] = "fetchGraph"
  /\ \E ok \in BOOLEAN :
       IF ok
       THEN /\ rpc' = [rpc EXCEPT ![i] = "jsonGraph"]
            /\ UNCHANGED details
       ELSE /\ rpc' = [rpc EXCEPT ![i] = "failed"]
            /\ details' = IF i = 1 THEN ErrorMessage ELSE details
  /\ UNCHANGED <<graphSelect, rGraph, rFeatures, rOk, cyGraph, FEATURES, reduceVars, annotVars>>

\* res.json() of the graph settles: a body that is no JSON rejects like a
\* failed fetch; else loadGraph returns the graph and
\* loadFeaturesForGraph(graphSelect.value) picks the features file of the file
\* selected now and issues its fetch
GraphBody(i) ==
  /\ rpc[i] = "jsonGraph"
  /\ \E ok \in BOOLEAN :
       IF ok
       THEN /\ rFeatures' = [rFeatures EXCEPT ![i] = FeaturesFile(graphSelect)]
            /\ rpc' = [rpc EXCEPT ![i] = "fetchFeatures"]
            /\ UNCHANGED details
       ELSE /\ rpc' = [rpc EXCEPT ![i] = "failed"]
            /\ details' = IF i = 1 THEN ErrorMessage ELSE details
            /\ UNCHANGED rFeatures
  /\ UNCHANGED <<graphSelect, rGraph, rOk, cyGraph, FEATURES, reduceVars, annotVars>>

\* the rest of render(): the graph is built into #cy and the message names
\* the file selected now
Show(i) ==
  /\ cyGraph' = rGraph[i]
  /\ details' = graphSelect
  /\ rpc' = [rpc EXCEPT ![i] = "done"]

\* loadFeaturesForGraph: the fetch answers; !res.ok empties the cache and
\* render() goes on without features
FeaturesResponse(i) ==
  /\ rpc[i] = "fetchFeatures"
  /\ \E ok \in BOOLEAN :
       IF ok
       THEN /\ rpc' = [rpc EXCEPT ![i] = "jsonFeatures"]
            /\ UNCHANGED <<FEATURES, rOk, cyGraph, details>>
       ELSE /\ FEATURES' = "empty"
            /\ rOk' = [rOk EXCEPT ![i] = FALSE]
            /\ Show(i)
  /\ UNCHANGED <<graphSelect, rGraph, rFeatures, reduceVars, annotVars>>

\* res.json() of the features settles: loadFeaturesForGraph fills
\* FEATURES_META / FEATURES_BY_ID (or empties them in its catch) and returns;
\* render() goes on to the end
FeaturesBody(i) ==
  /\ rpc[i] = "jsonFeatures"
  /\ \E ok \in BOOLEAN :
       /\ FEATURES' = IF ok THEN rFeatures[i] ELSE "empty"
       /\ rOk' = [rOk EXCEPT ![i] = ok]
  /\ Show(i)
  /\ UNCHANGED <<graphSelect, rGraph, rFeatures, reduceVars, annotVars>>

\* ------------------------------------------------------------------
\* Properties of render()
\* ------------------------------------------------------------------
\* every render() that was started has run to its end with its features
AllCompleted == \A i \in Started : rpc[i] = "done" /\ rOk[i]

\* C10: once all overlapping render() invocations have completed, the graph
\* shown, the feature cache and the 'Loaded <file>' message all belong to the
\* file selected in graphSelect, and no invocation pairs the graph of one
\* file with the features of another.
C10_RenderMatchesSelection ==
  /\ AllCompleted =>
       /\ cyGraph = graphSelect
       /\ FEATURES = FeaturesFile(graphSelect)
       /\ details = graphSelect
  /\ \A i \in Started :
       rpc[i] \in {"fetchFeatures", "jsonFeatures", "done"}
         => rFeatures[i] = FeaturesFile(rGraph[i])

\* ------------------------------------------------------------------
\* Inputs of the annotator
\* ------------------------------------------------------------------
Residues == <<"M", "K", "L">>

Sequence(n) == [i \in 1..n |-> Residues[((i - 1) % 3) + 1]]

SegPairs ==
  { <<WNum(a), WNum(1)>> : a \in -1..MaxLen } \cup { <<WNum(0), WNum(0)>>, <<WNum(1), WNum(MaxLen)>> }

\* two-element numeric pairs, and entries that are no such pair
SegEntries ==
  { Arr(p) : p \in SegPairs }
    \cup { Arr(<<WNum(0), Infinity>>), Arr(<<WStr, WNum(1)>>), Arr(<<WNum(1)>>), NotArray }

SegLists(n) == { Arr(l) : l \in UNION { [1..k -> SegEntries] : k \in 0..n } }

FeatureSegLists ==
  { Arr(<<>>),
    Arr(<< Arr(<<WNum(0), WNum(1)>>) >>),
    Arr(<< Arr(<<WNum(MaxLen), WNum(1)>>) >>),
    Arr(<< NotArray, Arr(<<WNum(1), WNum(1)>>), Arr(<<WNum(0), WNum(0)>>) >>),
    NotArray }

TopLists ==
  { Arr(<<>>),
    Arr(<< [pos |-> WNum(1), act |-> WNum(5)] >>),
    Arr(<< Null, [pos |-> WNum(0), act |-> WNum(2)], [pos |-> WStr, act |-> WNum(1)],
           [pos |-> WNum(MaxLen), act |-> WNum(1)], [pos |-> WNum(0)],
           [pos |-> WNum(0), act |-> WNum(7)] >>) }

Examples ==
  { [sequence |-> Sequence(n), behavior_segments |-> b, feature_segments |-> f,
     top_positions |-> t] :
      n \in 0..MaxLen, b \in SegLists(MaxSegs), f \in FeatureSegLists, t \in TopLists }
    \cup { [behavior_segments |-> b] : b \in SegLists(1) }

WrapExamples ==
  { [sequence |-> Sequence(n), behavior_segments |-> b] :
      n \in 0..MaxWrapLen, b \in {Arr(<<>>), Arr(<<Arr(<<WNum(1), WNum(MaxLineLen)>>)>>)} }

NoOpts == [x \in {} |-> 0]

AnnotIdle ==
  /\ example = NoOpts /\ opts = NoOpts /\ apc = "idle"
  /\ L = 0 /\ behSegs = <<>> /\ featSegs = <<>> /\ behMask = <<>> /\ featMask = <<>>
  /\ topMap = EmptyMap /\ start = 0 /\ lines = <<>>

AnnotCalled ==
  /\ apc = "called"
  /\ L = 0 /\ behSegs = <<>> /\ featSegs = <<>> /\ behMask = <<>> /\ featMask = <<>>
  /\ topMap = EmptyMap /\ start = 0 /\ lines = <<>>

ReduceIdle ==
  /\ graph = [nodes |-> <<>>, edges |-> <<>>]
  /\ minEdgeWeight = 0 /\ maxEdgesPerNode = 1
  /\ elems = [status |-> "idle", nodes |-> <<>>, edges |-> <<>>]

RenderIdle ==
  /\ graphSelect = NoFile
  /\ rpc = [i \in Renders |-> "idle"]
  /\ rGraph = [i \in Renders |-> NoFile]
  /\ rFeatures = [i \in Renders |-> "empty"]
  /\ rOk = [i \in Renders |-> FALSE]
  /\ cyGraph = NoFile /\ FEATURES = "empty" /\ details = NoFile

\* ------------------------------------------------------------------
\* Specifications
\* ------------------------------------------------------------------
NoElems == [status |-> "pending", nodes |-> <<>>, edges |-> <<>>]

InitReduce ==
  /\ \E ns \in NodeLists, es \in EdgeLists : graph = [nodes |-> ns, edges |-> Tagged(es)]
  /\ minEdgeWeight \in 0..MaxWeight
  /\ maxEdgesPerNode \in 1..MaxDegree
  /\ elems = NoElems
  /\ AnnotIdle
  /\ RenderIdle

Reduce ==
  /\ elems.status = "pending"
  /\ elems' = toCytoscapeElements(graph, minEdgeWeight, maxEdgesPerNode)
  /\ UNCHANGED <<graph, minEdgeWeight, maxEdgesPerNode, annotVars, renderVars>>

NextReduce == Reduce

SpecReduce == InitReduce /\ [][NextReduce]_vars

\* residue-level classification: short sequences, every kind of segment entry
InitClassify ==
  /\ example \in Examples
  /\ opts = NoOpts
  /\ AnnotCalled
  /\ ReduceIdle
  /\ RenderIdle

\* line wrapping: longer sequences, every line length
InitWrap ==
  /\ example \in WrapExamples
  /\ opts \in {[lineLen |-> n] : n \in 1..MaxLineLen}
  /\ AnnotCalled
  /\ ReduceIdle
  /\ RenderIdle

InitAnnotate == InitClassify \/ InitWrap

NextAnnotate == Prepare \/ Line \/ Return

SpecAnnotate == InitAnnotate /\ [][NextAnnotate]_vars

\* boot() has called render(): its fetch of the selected graph is in flight
InitRender ==
  /\ graphSelect \in GraphFiles
  /\ rpc = [i \in Renders |-> IF i = 1 THEN "fetchGraph" ELSE "idle"]
  /\ rGraph = [i \in Renders |-> IF i = 1 THEN graphSelect ELSE NoFile]
  /\ rFeatures = [i \in Renders |-> "empty"]
  /\ rOk = [i \in Renders |-> FALSE]
  /\ cyGraph = NoFile /\ FEATURES = "empty" /\ details = NoFile
  /\ ReduceIdle
  /\ AnnotIdle

NextRender ==
  \/ ChangeGraph
  \/ ChangeEdgeControl
  \/ \E i \in Renders : GraphResponse(i)
  \/ \E i \in Renders : GraphBody(i)
  \/ \E i \in Renders : FeaturesResponse(i)
  \/ \E i \in Renders : FeaturesBody(i)

SpecRender == InitRender /\ [][NextRender]_vars

====
